---- MODULE Spec2Model ----
(***************************************************************************)
(* Model of the Time Chapter page (src/src/app/page.tsx): the per-date log *)
(* and todo stores, the timestamp engine (rendering, parsing, composing),  *)
(* the word-boundary matcher, and the per-identity session.                *)
(*                                                                         *)
(* Conventions of the model                                                *)
(*  - An instant is an integer number of milliseconds, as Date.getTime(),  *)
(*    counted from midnight UTC of the day before the first model date so  *)
(*    that every value fits TLC's integers.  Real instants are positive,   *)
(*    and so are the model's.                                              *)
(*  - A date string "YYYY-MM-DD" is the index of its day (1..NumDates).    *)
(*  - A timezone is an IANA name with a fixed offset to UTC (no DST).      *)
(*  - A time text ("9:05 PM", "21:05", "abc") is a record: whether it has  *)
(*    an H:MM-shaped substring, the digits of that substring, its suffix.  *)
(*  - A content string is a sequence of one-character strings.             *)
(***************************************************************************)
EXTENDS Integers, Sequences, FiniteSets, TLC

(***************************************************************************)
(* Bounds of the model                                                     *)
(***************************************************************************)
\* number of calendar dates the date picker ranges over
NumDates == 2
\* number of sample instants the wall clock can show
NumInstants == 2
\* number of logs the page holds at a time
MaxLogs == 2
\* number of todos the add field and the copy button put on the page
MaxTodos == 1
\* number of todos the import adds to those
MaxImportedTodos == 1

(***************************************************************************)
(* Units                                                                   *)
(***************************************************************************)
MsPerMin == 60 * 1000
MsPerHour == 60 * MsPerMin
MsPerDay == 24 * MsPerHour

Dates == 1..NumDates

\* first instant of a date, in UTC
DayStart(d) == d * MsPerDay

(***************************************************************************)
(* Timezones and the clock                                                 *)
(***************************************************************************)
\* two zones without daylight saving time, twelve hours apart
Timezones == {"America/Sao_Paulo", "Asia/Tokyo"}

TzOffset(tz) ==
  CASE tz = "America/Sao_Paulo" -> (0 - 3) * MsPerHour
    [] tz = "Asia/Tokyo" -> 9 * MsPerHour
    [] OTHER -> 0

\* Intl.DateTimeFormat().resolvedOptions().timeZone: the zone of the machine
\* the page runs on
HostZone == "America/Sao_Paulo"

TimeFormats == {"12", "24"}

\* The sample instants of the clock: the first is 03:20:30 UTC of date 1
\* (12:20 AM in Sao Paulo, 12:20 PM in Tokyo), and each next one is 12 h and
\* 15 s later (12:20 PM in Sao Paulo, 12:20 AM of the next day in Tokyo).
InstantStep == 12 * MsPerHour + 15 * 1000

Instant(i) ==
  DayStart(1) + 3 * MsPerHour + 20 * MsPerMin + 30 * 1000 + (i - 1) * InstantStep

Instants == {Instant(i) : i \in 1..NumInstants}

\* new Date().toISOString().slice(0, 10): the UTC date of an instant
toISODate(ts) == ts \div MsPerDay

(***************************************************************************)
(* Time texts                                                              *)
(***************************************************************************)
\* a text with an H:MM-shaped substring hh:mm and an optional AM/PM suffix
TimeText(hh, mm, ampm) == [shape |-> "hm", hh |-> hh, mm |-> mm, ampm |-> ampm]

\* a text without any H:MM-shaped substring, e.g. "abc" or ""
NoTimeText == [shape |-> "none", hh |-> 0, mm |-> 0, ampm |-> ""]

\* Date.prototype.toLocaleTimeString('en-US', {hour12, timeZone, hour:
\* 'numeric', minute: '2-digit'}): the wall clock of the instant in the zone
toLocaleTimeString(ts, tz, fmt) ==
  LET wall == ts + TzOffset(tz)
      minuteOfDay == (wall \div MsPerMin) % (24 * 60)
      h == minuteOfDay \div 60
      m == minuteOfDay % 60
  IN IF fmt = "12"
       THEN TimeText(IF h % 12 = 0 THEN 12 ELSE h % 12, m,
                     IF h < 12 THEN "AM" ELSE "PM")
       ELSE TimeText(h, m, "")

\* a parser that reads a text without H:MM-shaped substring as midnight
parseEditedTime_lenient(timeStr, fmt) ==
  IF timeStr.shape # "hm"
    THEN [ok |-> TRUE, hour |-> 0, minute |-> 0]
    ELSE LET hh == timeStr.hh
             ampm == timeStr.ampm
             hh1 == IF fmt = "12" /\ ampm = "PM" /\ hh < 12 THEN hh + 12 ELSE hh
             hh2 == IF fmt = "12" /\ ampm = "AM" /\ hh1 = 12 THEN 0 ELSE hh1
         IN [ok |-> TRUE, hour |-> hh2, minute |-> timeStr.mm]

\* a parser that rejects an hour past 23 or a minute past 59
parseEditedTime_strict(timeStr, fmt) ==
  IF timeStr.shape # "hm" \/ timeStr.hh > 23 \/ timeStr.mm > 59
    THEN [ok |-> FALSE, hour |-> 0, minute |-> 0]
    ELSE LET hh == timeStr.hh
             ampm == timeStr.ampm
             hh1 == IF fmt = "12" /\ ampm = "PM" /\ hh < 12 THEN hh + 12 ELSE hh
             hh2 == IF fmt = "12" /\ ampm = "AM" /\ hh1 = 12 THEN 0 ELSE hh1
         IN [ok |-> TRUE, hour |-> hh2, minute |-> timeStr.mm]

\* parseEditedTime: the first H:MM-shaped substring of the text, with 12-hour
\* arithmetic when the format is '12' and a suffix is present.  The result has
\* ok = FALSE where the source throws 'cannot parse time'.
parseEditedTime(timeStr, fmt) ==
  IF timeStr.shape # "hm"
    THEN [ok |-> FALSE, hour |-> 0, minute |-> 0]
    ELSE LET hh == timeStr.hh
             ampm == timeStr.ampm
             hh1 == IF fmt = "12" /\ ampm = "PM" /\ hh < 12 THEN hh + 12 ELSE hh
             hh2 == IF fmt = "12" /\ ampm = "AM" /\ hh1 = 12 THEN 0 ELSE hh1
         IN [ok |-> TRUE, hour |-> hh2, minute |-> timeStr.mm]

\* parseTimePart (import): as parseEditedTime, but a text without an
\* H:MM-shaped substring yields [0, 0] instead of throwing
parseTimePart(timeStr, fmt) ==
  IF timeStr.shape # "hm"
    THEN [ok |-> TRUE, hour |-> 0, minute |-> 0]
    ELSE parseEditedTime(timeStr, fmt)

(***************************************************************************)
(* Date objects.  A Date is kept as its local fields: the number of        *)
(* milliseconds its wall clock in the HOST zone is past the model epoch.   *)
(***************************************************************************)
\* new Date(new Date().toLocaleString('en-US', {timeZone: tz})): the wall clock
\* of the instant in tz (to the second), read back as a wall clock of the host
zonedNow(ts, tz) == ((ts + TzOffset(tz)) \div 1000) * 1000

\* dt.setFullYear(yyyy, mm - 1, dd): replaces the date fields, keeps the time
setFullYear(local, date) == DayStart(date) + (local % MsPerDay)

\* dt.setHours(hour, minute, 0, 0): replaces the time fields, keeps the date;
\* out-of-range values roll over into the following days
setHours(local, hour, minute) ==
  (local \div MsPerDay) * MsPerDay + hour * MsPerHour + minute * MsPerMin

\* dt.getTime(): the instant whose wall clock in the host zone is `local`
getTime(local, host) == local - TzOffset(host)

\* lines 792-801 of saveLogEdits and 312-318 of parseLines: the timestamp
\* composed from a date string and a parsed hour and minute
composeTimestamp(clock, tz, host, date, hour, minute) ==
  getTime(setHours(setFullYear(zonedNow(clock, tz), date), hour, minute), host)

(***************************************************************************)
(* Log items and their order                                               *)
(***************************************************************************)
\* a log item with a rawTimestamp
LogItem(id, time, content, ts) ==
  [id |-> id, time |-> time, content |-> content, hasTS |-> TRUE, rawTimestamp |-> ts]

\* a log item stored by an older version, without rawTimestamp
LegacyLogItem(id, time, content) ==
  [id |-> id, time |-> time, content |-> content, hasTS |-> FALSE, rawTimestamp |-> 0]

\* a.rawTimestamp ?? 0
tsOrZero(log) == IF log.hasTS THEN log.rawTimestamp ELSE 0

RECURSIVE insertSorted_unstable(_, _)
\* a sort that is not stable: an element goes before those of equal key
insertSorted_unstable(sorted, x) ==
  IF sorted = <<>> THEN <<x>>
  ELSE IF tsOrZero(Head(sorted)) < tsOrZero(x)
         THEN <<Head(sorted)>> \o insertSorted_unstable(Tail(sorted), x)
         ELSE <<x>> \o sorted

RECURSIVE insertSorted(_, _)
\* places x after every element whose key is not greater (stable)
insertSorted(sorted, x) ==
  IF sorted = <<>> THEN <<x>>
  ELSE IF tsOrZero(Head(sorted)) <= tsOrZero(x)
         THEN <<Head(sorted)>> \o insertSorted(Tail(sorted), x)
         ELSE <<x>> \o sorted

RECURSIVE sortFrom(_, _)
sortFrom(done, rest) ==
  IF rest = <<>> THEN done ELSE sortFrom(insertSorted(done, Head(rest)), Tail(rest))

\* a sort that leaves the array as it is
sortLogsByTimestamp_unsorted(logList) == logList

\* [...logs].sort((a, b) => (a.rawTimestamp ?? 0) - (b.rawTimestamp ?? 0)):
\* Array.prototype.sort is stable
sortLogsByTimestamp(logList) == sortFrom(<<>>, logList)

\* a conversion that keeps the old display time
reRender_stale(log, newTz, newFormat) == log

\* a conversion that moves the instant by the offset of the new zone
reRender_shift(log, newTz, newFormat) ==
  IF ~log.hasTS THEN log
  ELSE [log EXCEPT !.time = toLocaleTimeString(log.rawTimestamp, newTz, newFormat),
                   !.rawTimestamp = log.rawTimestamp + TzOffset(newTz)]

\* a conversion that renders a log without rawTimestamp as the instant 0
reRender_legacy(log, newTz, newFormat) ==
  [log EXCEPT !.time = toLocaleTimeString(tsOrZero(log), newTz, newFormat)]

\* dayLogs.map(...) of convertAllLogs: the display time of one log
reRender(log, newTz, newFormat) ==
  IF ~log.hasTS THEN log
  ELSE [log EXCEPT !.time = toLocaleTimeString(log.rawTimestamp, newTz, newFormat)]

mapSeq(s, F(_)) == [i \in 1..Len(s) |-> F(s[i])]

convertAllLogs(logData, newTz, newFormat) ==
  [dateKey \in DOMAIN logData |->
     LET conv(log) == reRender(log, newTz, newFormat)
     IN sortLogsByTimestamp(mapSeq(logData[dateKey], conv))]

(***************************************************************************)
(* Strings and the matcher                                                 *)
(***************************************************************************)
Alphabet == {"a", "A", "b", " ", "."}

\* \w of the regular expression
isWordChar(c) == c \in {"a", "A", "b"}

\* the 'i' flag
toLower(c) == IF c = "A" THEN "a" ELSE c

isSpace(c) == c = " "

RECURSIVE trimStart(_)
trimStart(s) ==
  IF s # <<>> /\ isSpace(Head(s)) THEN trimStart(Tail(s)) ELSE s

RECURSIVE trimEnd(_)
trimEnd(s) ==
  IF s # <<>> /\ isSpace(s[Len(s)]) THEN trimEnd(SubSeq(s, 1, Len(s) - 1)) ELSE s

\* String.prototype.trim
trim(s) == trimEnd(trimStart(s))

\* \b at position p of s (between s[p] and s[p+1]): exactly one side is a
\* word character; outside the string counts as a non-word character
wordBoundary(s, p) ==
  LET before == p >= 1 /\ isWordChar(s[p])
      after == p < Len(s) /\ isWordChar(s[p + 1])
  IN before # after

\* a matcher without the word boundaries: a case-insensitive substring test
todoMatchesLog_substring(todoContent, logContent) ==
  \E i \in 0..(Len(logContent) - Len(todoContent)) :
    \A k \in 1..Len(todoContent) :
      toLower(logContent[i + k]) = toLower(todoContent[k])

\* new RegExp(`\\b${escaped}\\b`, 'i').test(logContent): the escaped todo
\* content is a literal phrase
todoMatchesLog(todoContent, logContent) ==
  \E i \in 0..(Len(logContent) - Len(todoContent)) :
    /\ wordBoundary(logContent, i)
    /\ \A k \in 1..Len(todoContent) :
         toLower(logContent[i + k]) = toLower(todoContent[k])
    /\ wordBoundary(logContent, i + Len(todoContent))

(***************************************************************************)
(* Inputs of the handlers                                                  *)
(***************************************************************************)
\* what the user types into a content field: "a", "b", and a blank " "
InputTexts == {<<"a">>, <<"b">>, <<" ">>}

\* what the user types into the time field of a log being edited: "abc" and
\* "25:00"
InputTimes == {NoTimeText, TimeText(25, 0, "")}

\* the static identity table `users`
Users == {"admin", "user"}

password(u) == u

(***************************************************************************)
(* State                                                                   *)
(***************************************************************************)
VARIABLES
  user,              \* username of the logged-in identity, or "none"
  storage,           \* localStorage: the records kept per identity
  logs,              \* LogsByDate
  todos,             \* TodosByDate
  selectedDate,
  timeFormat,
  timezone,
  editingLogId,      \* id of the log being edited, or 0 (null)
  editError,         \* "" (null) or the error message
  editingTodoId,     \* id of the todo being edited, or 0 (null)
  confirmModal,      \* the confirm dialog and what its onConfirm captured
  importModal,       \* the import dialog: its type and its preview
  now,               \* the wall clock, Date.now()
  hostTz,            \* the zone of the machine the page runs on
  crashed,           \* an effect threw and the page is unmounted
  fnIn,              \* the arguments of a pure function under test, or <<>>
  fnOut              \* <<its result>> once it was applied, else <<>>

vars == <<user, storage, logs, todos, selectedDate, timeFormat, timezone,
          editingLogId, editError, editingTodoId, confirmModal, importModal,
          now, hostTz, crashed, fnIn, fnOut>>

editVars == <<editingLogId, editError>>
modalVars == <<confirmModal, importModal>>
settingVars == <<selectedDate, timeFormat, timezone>>
envVars == <<now, hostTz, crashed, fnIn, fnOut>>

\* a LogsByDate or TodosByDate without entries; a missing key and an empty
\* array read the same (logs[selectedDate] || [])
EmptyByDate == [d \in Dates |-> <<>>]

TodoItem(id, content, manualOverride) ==
  [id |-> id, content |-> content, manualOverride |-> manualOverride]

\* the records of one identity in localStorage; saved = FALSE when the keys
\* are absent; corrupt holds the keys ("logs", "todos") whose text is not
\* JSON, and what the record then holds under such a key is never read
Unsaved ==
  [saved |-> FALSE, corrupt |-> {}, logs |-> EmptyByDate, todos |-> EmptyByDate,
   timezone |-> "", timeFormat |-> "", selectedDate |-> 0]

\* records written by an earlier session of an older version of the page: a
\* log without rawTimestamp and a todo
SavedSnapshot ==
  [saved |-> TRUE, corrupt |-> {},
   logs |-> [d \in Dates |->
               IF d = 1 THEN <<LegacyLogItem(1, TimeText(9, 0, "AM"), <<"a">>)>>
               ELSE <<>>],
   todos |-> [d \in Dates |->
                IF d = 1 THEN <<TodoItem(1, <<"a">>, "null")>> ELSE <<>>],
   timezone |-> "America/Sao_Paulo", timeFormat |-> "12", selectedDate |-> 1]

\* The dialog when hidden; the callbacks a hidden dialog still holds are never
\* invoked, so what they captured is not kept.
closedModal == [visible |-> FALSE, type |-> "", date |-> 0]

\* the import dialog when closed; opening it resets its state (lines 223-231)
closedImport ==
  [open |-> "none", importItems |-> <<>>, duplicates |-> {}, selected |-> {}]

\* the page after mounting, nobody logged in; localStorage holds the given
\* records of admin and none of user
InitWith(rec, input) ==
  /\ hostTz = HostZone
  /\ now = Instant(1)
  /\ user = "none"
  /\ storage = [u \in Users |-> IF u = "admin" THEN rec ELSE Unsaved]
  /\ logs = EmptyByDate
  /\ todos = EmptyByDate
  /\ selectedDate = toISODate(now)
  /\ timeFormat = "12"
  /\ timezone = hostTz
  /\ editingLogId = 0
  /\ editError = ""
  /\ editingTodoId = 0
  /\ confirmModal = closedModal
  /\ importModal = closedImport
  /\ crashed = FALSE
  /\ fnIn = input
  /\ fnOut = <<>>

\* a browser that has never run the page
Init == InitWith(Unsaved, <<>>)

\* a browser that holds the records of an earlier session
InitSaved == InitWith(SavedSnapshot, <<>>)

(***************************************************************************)
(* Effects and helpers                                                     *)
(***************************************************************************)
\* the save effect (lines 668-676), which runs after every render in which
\* logs, todos, the settings or the user changed: it writes the state of
\* that render under the keys of the logged-in identity
saveEffect ==
  storage' =
    IF user' = "none" THEN storage
    ELSE [storage EXCEPT ![user'] =
            [saved |-> TRUE, corrupt |-> {}, logs |-> logs', todos |-> todos',
             timezone |-> timezone', timeFormat |-> timeFormat',
             selectedDate |-> selectedDate']]

\* the main page is rendered for a logged-in identity, and an open dialog
\* covers it
pageActive ==
  user # "none" /\ ~confirmModal.visible /\ importModal.open = "none"

dayLogs == logs[selectedDate]
dayTodos == todos[selectedDate]

idsOf(list) == {list[i].id : i \in 1..Len(list)}

\* the item of the given id in a list
itemById(list, id) == CHOOSE l \in {list[i] : i \in 1..Len(list)} : l.id = id

countItems(byDate) ==
  LET RECURSIVE sum(_)
      sum(D) == IF D = {} THEN 0
                ELSE LET d == CHOOSE x \in D : TRUE
                     IN Len(byDate[d]) + sum(D \ {d})
  IN sum(DOMAIN byDate)

\* the ids in use among the logs, among the todos, and in the import preview
usedIds(kind) ==
  CASE kind = "log" ->
         UNION {idsOf(logs[d]) : d \in Dates}
           \cup UNION {idsOf(storage[u].logs[d]) : u \in Users, d \in Dates}
           \cup {editingLogId}
    [] kind = "todo" ->
         UNION {idsOf(todos[d]) : d \in Dates}
           \cup UNION {idsOf(storage[u].todos[d]) : u \in Users, d \in Dates}
           \cup {editingTodoId}
    [] OTHER -> idsOf(importModal.importItems) \cup importModal.duplicates

\* generateId (crypto.randomUUID) for a new log, todo or preview item: an id
\* that no item of that kind has.  The model takes the smallest such number,
\* skipping those in `taken`; ids of different kinds are never compared.
generateId(kind, taken) ==
  LET used == usedIds(kind) \cup taken \cup {0}
  IN CHOOSE i \in 1..(Cardinality(used) + 1) :
       i \notin used /\ \A j \in 1..(i - 1) : j \in used

(***************************************************************************)
(* Login / logout                                                          *)
(***************************************************************************)
\* the save effect of the commit that sets the user: it writes the state of
\* that render, which is the state from before the login
staleSave(u) ==
  [storage EXCEPT ![u] =
     [saved |-> TRUE, corrupt |-> {}, logs |-> logs, todos |-> todos,
      timezone |-> timezone, timeFormat |-> timeFormat,
      selectedDate |-> selectedDate]]

\* a load effect that reads the keys after the save effect of its commit has
\* written them
loadedRecord_afterSave(u) ==
  IF storage[u].saved /\ storage[u].corrupt # {} THEN storage[u] ELSE staleSave(u)[u]

\* what the load effect reads: it is declared before the save effect and so
\* runs first in the commit that sets the user, on the keys as they were
loadedRecord(u) == storage[u]

\* handleLoginSubmit with valid credentials, followed by the load effect
\* (lines 648-663) and the save effect of the renders it causes.  Invalid
\* credentials only set the alert.  JSON.parse of a corrupt record throws
\* inside the load effect: nothing catches it, the remaining effects of the
\* commit are skipped and the page is unmounted.
handleLoginSubmit(loginUsername, loginPassword) ==
  /\ ~crashed
  /\ user = "none"
  /\ loginUsername \in Users
  /\ password(loginUsername) = loginPassword
  /\ LET rec == loadedRecord(loginUsername)
     IN IF rec.saved /\ rec.corrupt # {}
          THEN /\ crashed' = TRUE
               /\ UNCHANGED <<user, storage, logs, todos, settingVars, editVars,
                              editingTodoId, modalVars, now, hostTz, fnIn, fnOut>>
          ELSE /\ user' = loginUsername
               /\ logs' = IF rec.saved THEN rec.logs ELSE logs
               /\ todos' = IF rec.saved THEN rec.todos ELSE todos
               /\ timezone' = IF rec.saved THEN rec.timezone ELSE timezone
               /\ timeFormat' = IF rec.saved THEN rec.timeFormat ELSE timeFormat
               /\ selectedDate' = IF rec.saved THEN rec.selectedDate ELSE selectedDate
               /\ UNCHANGED <<editVars, editingTodoId, modalVars, envVars>>
               /\ saveEffect

handleLogout ==
  /\ pageActive
  /\ user' = "none"
  /\ logs' = EmptyByDate
  /\ todos' = EmptyByDate
  /\ UNCHANGED <<settingVars, editVars, editingTodoId, modalVars, envVars>>
  /\ saveEffect

(***************************************************************************)
(* Settings and date navigation                                            *)
(***************************************************************************)
handleTimezoneChange(newTz) ==
  /\ pageActive
  /\ logs' = convertAllLogs(logs, newTz, timeFormat)
  /\ timezone' = newTz
  /\ UNCHANGED <<user, todos, selectedDate, timeFormat, editVars, editingTodoId,
                 modalVars, envVars>>
  /\ saveEffect

handleTimeFormatChange(newFormat) ==
  /\ pageActive
  /\ logs' = convertAllLogs(logs, timezone, newFormat)
  /\ timeFormat' = newFormat
  /\ UNCHANGED <<user, todos, selectedDate, timezone, editVars, editingTodoId,
                 modalVars, envVars>>
  /\ saveEffect

\* the date input and the previous/next day buttons (lines 1402-1427)
setSelectedDate(d) ==
  /\ pageActive
  /\ d # selectedDate
  /\ selectedDate' = d
  /\ UNCHANGED <<user, logs, todos, timeFormat, timezone, editVars, editingTodoId,
                 modalVars, envVars>>
  /\ saveEffect

\* time passes
Tick ==
  /\ \E t \in Instants : t > now /\ now' = t
  /\ UNCHANGED <<user, storage, logs, todos, settingVars, editVars, editingTodoId,
                 modalVars, hostTz, crashed, fnIn, fnOut>>

(***************************************************************************)
(* Logs                                                                    *)
(***************************************************************************)
addLog(newLog) ==
  /\ pageActive
  /\ trim(newLog) # <<>>
  /\ countItems(logs) < MaxLogs
  /\ LET rawTimestamp == now
         timeStr == toLocaleTimeString(now, timezone, timeFormat)
         newLogObj == LogItem(generateId("log", {}), timeStr, newLog, rawTimestamp)
         updated == sortLogsByTimestamp(Append(dayLogs, newLogObj))
     IN logs' = [logs EXCEPT ![selectedDate] = updated]
  /\ UNCHANGED <<user, todos, settingVars, editVars, editingTodoId, modalVars,
                 envVars>>
  /\ saveEffect

removeLog(logId) ==
  /\ pageActive
  /\ logId \in idsOf(dayLogs)
  /\ LET keep(l) == l.id # logId
     IN logs' = [logs EXCEPT ![selectedDate] = SelectSeq(dayLogs, keep)]
  /\ UNCHANGED <<user, todos, settingVars, editVars, editingTodoId, modalVars,
                 envVars>>
  /\ saveEffect

\* The controlled inputs of the row being edited (editedLogTime,
\* editedLogContent) are not kept as state: a handler that reads them takes
\* what they hold as parameters, which is either what startEditingLog put
\* there (the entry's own time and content) or what the user typed since.
startEditingLog(logId) ==
  /\ pageActive
  /\ logId # editingLogId
  /\ logId \in idsOf(dayLogs)
  /\ editingLogId' = logId
  /\ editError' = ""
  /\ UNCHANGED <<user, storage, logs, todos, settingVars, editingTodoId,
                 modalVars, envVars>>

\* what the time field can hold when Save is pressed
timeFieldValues(log) == InputTimes \cup {log.time}

\* what a content field can hold when Save is pressed
contentFieldValues(item) == InputTexts \cup {item.content}

\* an edit that stores what the field holds, blank or not
editedContent_clearing(edited, prior) == trim(edited)

\* editedLogContent.trim() || l.content, editedTodoContent.trim() || t.content
editedContent(edited, prior) ==
  IF trim(edited) # <<>> THEN trim(edited) ELSE prior

\* the Save button of the row being edited: saveLogEdits(log.id) with
\* log.id = editingLogId
saveLogEdits(logId, editedLogTime, editedLogContent) ==
  /\ pageActive
  /\ logId = editingLogId
  /\ logId \in idsOf(dayLogs)
  /\ LET parsed == parseEditedTime(editedLogTime, timeFormat)
         newTS == composeTimestamp(now, timezone, hostTz, selectedDate,
                                   parsed.hour, parsed.minute)
         newTimeStr == toLocaleTimeString(newTS, timezone, timeFormat)
         edit(l) ==
           IF l.id = logId
             THEN [l EXCEPT !.time = newTimeStr,
                            !.content = editedContent(editedLogContent, l.content),
                            !.hasTS = TRUE,
                            !.rawTimestamp = newTS]
             ELSE l
         sorted == sortLogsByTimestamp(mapSeq(dayLogs, edit))
     IN IF parsed.ok
          THEN /\ logs' = [logs EXCEPT ![selectedDate] = sorted]
               /\ editingLogId' = 0
               /\ editError' = ""
          ELSE /\ editError' = "Invalid time format"
               /\ UNCHANGED <<logs, editingLogId>>
  /\ UNCHANGED <<user, todos, settingVars, editingTodoId, modalVars, envVars>>
  /\ saveEffect

cancelLogEdit ==
  /\ pageActive
  /\ editingLogId \in idsOf(dayLogs)
  /\ editingLogId' = 0
  /\ editError' = ""
  /\ UNCHANGED <<user, storage, logs, todos, settingVars, editingTodoId,
                 modalVars, envVars>>

(***************************************************************************)
(* Todos                                                                   *)
(***************************************************************************)
addTodo(newTodo) ==
  /\ pageActive
  /\ trim(newTodo) # <<>>
  /\ countItems(todos) < MaxTodos
  /\ LET newTodoObj == TodoItem(generateId("todo", {}), trim(newTodo), "null")
     IN todos' = [todos EXCEPT ![selectedDate] = Append(dayTodos, newTodoObj)]
  /\ UNCHANGED <<user, logs, settingVars, editVars, editingTodoId, modalVars,
                 envVars>>
  /\ saveEffect

removeTodo(todoId) ==
  /\ pageActive
  /\ todoId \in idsOf(dayTodos)
  /\ LET keep(t) == t.id # todoId
     IN todos' = [todos EXCEPT ![selectedDate] = SelectSeq(dayTodos, keep)]
  /\ UNCHANGED <<user, logs, settingVars, editVars, editingTodoId, modalVars,
                 envVars>>
  /\ saveEffect

startEditingTodo(todoId) ==
  /\ pageActive
  /\ todoId # editingTodoId
  /\ todoId \in idsOf(dayTodos)
  /\ editingTodoId' = todoId
  /\ UNCHANGED <<user, storage, logs, todos, settingVars, editVars, modalVars,
                 envVars>>

\* the Save button of the row being edited; editedTodoContent is what the
\* content field holds
saveTodoEdits(todoId, editedTodoContent) ==
  /\ pageActive
  /\ todoId = editingTodoId
  /\ todoId \in idsOf(dayTodos)
  /\ LET edit(t) ==
           IF t.id = todoId
             THEN [t EXCEPT !.content = editedContent(editedTodoContent, t.content)]
             ELSE t
     IN todos' = [todos EXCEPT ![selectedDate] = mapSeq(dayTodos, edit)]
  /\ editingTodoId' = 0
  /\ UNCHANGED <<user, logs, settingVars, editVars, modalVars, envVars>>
  /\ saveEffect

cancelTodoEdit ==
  /\ pageActive
  /\ editingTodoId \in idsOf(dayTodos)
  /\ editingTodoId' = 0
  /\ UNCHANGED <<user, storage, logs, todos, settingVars, editVars, modalVars,
                 envVars>>

\* getLogMatchState evaluated against a LogsByDate and a selected date
logMatchState(todo, logData, date) ==
  \E i \in 1..Len(logData[date]) :
    todoMatchesLog(todo.content, logData[date][i].content)

getLogMatchState(todo) == logMatchState(todo, logs, selectedDate)

\* a completion that ignores the logs
todoCompleted_overrideOnly(todo, logData, date) == todo.manualOverride = "true"

\* a completion in which a matching log wins over the override
todoCompleted_matchWins(todo, logData, date) ==
  \/ logMatchState(todo, logData, date)
  \/ todo.manualOverride = "true"

\* isTodoCompleted evaluated against a LogsByDate and a selected date
todoCompleted(todo, logData, date) ==
  LET matched == logMatchState(todo, logData, date)
  IN IF todo.manualOverride = "null" THEN matched
     ELSE todo.manualOverride = "true"

isTodoCompleted(todo) == todoCompleted(todo, logs, selectedDate)

\* a boolean as the value of manualOverride
boolStr(b) == IF b THEN "true" ELSE "false"

\* a blind flip of the stored override
flipTodo_blind(t, logData, date) ==
  [t EXCEPT !.manualOverride = boolStr(t.manualOverride # "true")]

\* a toggle that always marks the todo complete
flipTodo_complete(t, logData, date) == [t EXCEPT !.manualOverride = "true"]

\* a toggle that takes the override off a todo that has one
flipTodo_reset(t, logData, date) ==
  IF t.manualOverride # "null" THEN [t EXCEPT !.manualOverride = "null"]
  ELSE [t EXCEPT !.manualOverride = boolStr(~logMatchState(t, logData, date))]

\* the object toggleTodo puts in the place of the toggled todo
flipTodo(t, logData, date) ==
  LET currentlyCompleted == todoCompleted(t, logData, date)
  IN [t EXCEPT !.manualOverride = boolStr(~currentlyCompleted)]

toggleTodo(todoId) ==
  /\ pageActive
  /\ todoId \in idsOf(dayTodos)
  /\ LET flip(t) == IF t.id = todoId THEN flipTodo(t, logs, selectedDate) ELSE t
     IN todos' = [todos EXCEPT ![selectedDate] = mapSeq(dayTodos, flip)]
  /\ UNCHANGED <<user, logs, settingVars, editVars, editingTodoId, modalVars,
                 envVars>>
  /\ saveEffect

(***************************************************************************)
(* Copies between the stores                                               *)
(***************************************************************************)
copyTodoToLog(todoId) ==
  /\ pageActive
  /\ todoId \in idsOf(dayTodos)
  /\ countItems(logs) < MaxLogs
  /\ LET todo == itemById(dayTodos, todoId)
         rawTimestamp == now
         timeStr == toLocaleTimeString(now, timezone, timeFormat)
         newLogObj == LogItem(generateId("log", {}), timeStr, todo.content, rawTimestamp)
         updated == sortLogsByTimestamp(Append(dayLogs, newLogObj))
     IN logs' = [logs EXCEPT ![selectedDate] = updated]
  /\ UNCHANGED <<user, todos, settingVars, editVars, editingTodoId, modalVars,
                 envVars>>
  /\ saveEffect

copyLogToTodo(logId) ==
  /\ pageActive
  /\ logId \in idsOf(dayLogs)
  /\ countItems(todos) < MaxTodos
  /\ LET log == itemById(dayLogs, logId)
         newTodoObj == TodoItem(generateId("todo", {}), log.content, "null")
     IN todos' = [todos EXCEPT ![selectedDate] = Append(dayTodos, newTodoObj)]
  /\ UNCHANGED <<user, logs, settingVars, editVars, editingTodoId, modalVars,
                 envVars>>
  /\ saveEffect

(***************************************************************************)
(* Clear                                                                   *)
(***************************************************************************)
\* the Clear button: opens the confirm dialog, whose callbacks capture the
\* type and the date selected at that moment
confirmClearAll(type) ==
  /\ pageActive
  /\ confirmModal' = [visible |-> TRUE, type |-> type, date |-> selectedDate]
  /\ UNCHANGED <<user, storage, logs, todos, settingVars, editVars, editingTodoId,
                 importModal, envVars>>

\* a confirmation that empties the store for every date
onConfirm_allDates ==
  /\ user # "none"
  /\ confirmModal.visible
  /\ IF confirmModal.type = "logs"
       THEN logs' = EmptyByDate /\ UNCHANGED todos
       ELSE todos' = EmptyByDate /\ UNCHANGED logs
  /\ confirmModal' = closedModal
  /\ UNCHANGED <<user, settingVars, editVars, editingTodoId, importModal, envVars>>
  /\ saveEffect

\* a confirmation that empties the bucket of both stores
onConfirm_bothStores ==
  /\ user # "none"
  /\ confirmModal.visible
  /\ logs' = [logs EXCEPT ![confirmModal.date] = <<>>]
  /\ todos' = [todos EXCEPT ![confirmModal.date] = <<>>]
  /\ confirmModal' = closedModal
  /\ UNCHANGED <<user, settingVars, editVars, editingTodoId, importModal, envVars>>
  /\ saveEffect

\* onConfirm of the dialog
onConfirm ==
  /\ user # "none"
  /\ confirmModal.visible
  /\ IF confirmModal.type = "logs"
       THEN /\ logs' = [logs EXCEPT ![confirmModal.date] = <<>>]
            /\ UNCHANGED todos
       ELSE /\ todos' = [todos EXCEPT ![confirmModal.date] = <<>>]
            /\ UNCHANGED logs
  /\ confirmModal' = closedModal
  /\ UNCHANGED <<user, settingVars, editVars, editingTodoId, importModal, envVars>>
  /\ saveEffect

\* onCancel of the dialog
onCancel ==
  /\ user # "none"
  /\ confirmModal.visible
  /\ confirmModal' = closedModal
  /\ UNCHANGED <<user, storage, logs, todos, settingVars, editVars, editingTodoId,
                 importModal, envVars>>

(***************************************************************************)
(* Import of logs                                                          *)
(*                                                                         *)
(* A line of the pasted text is a record: the date it starts with (0 when  *)
(* it starts with none), whether that date is written in brackets, its     *)
(* time text, whether it has a " - " separator, and the content after it   *)
(* (the whole line when there is no separator and no date).                *)
(***************************************************************************)
LogLine(date, bracket, time, sep, content) ==
  [date |-> date, bracket |-> bracket, time |-> time, sep |-> sep,
   content |-> content]

ParsedItem(id, date, time, content, rawTimestamp) ==
  [id |-> id, date |-> date, time |-> time, content |-> content,
   rawTimestamp |-> rawTimestamp]

\* parseLines, type 'logs': one line
parseLogLine(line, id) ==
  LET \* /^(\d{4}-\d{2}-\d{2})\s+(.*)$/ matches a date that is not in brackets
      match == line.date # 0 /\ ~line.bracket
      datePart == IF match THEN line.date ELSE 0
      wholeLine == ~match /\ ~line.sep
      \* segments[0] is the text before the first " - ", or all of the rest
      \* of a dated line that has none
      timePart ==
        IF wholeLine THEN toLocaleTimeString(now, timezone, timeFormat)
        ELSE line.time
      contentPart == IF wholeLine \/ line.sep THEN trim(line.content) ELSE <<>>
      dateStr == IF datePart # 0 THEN datePart ELSE toISODate(now)
      parsed == parseTimePart(timePart, timeFormat)
      rawTimestamp == composeTimestamp(now, timezone, hostTz, dateStr,
                                       parsed.hour, parsed.minute)
  IN ParsedItem(id, datePart, timePart, contentPart, rawTimestamp)

\* A line of a pasted todo text is a record: the date it starts with (0 when
\* it starts with none), whether that date is written in brackets, whether a
\* "-" follows (the date, or the start of the line), and the content after
\* that.
TodoLine(date, bracket, dash, content) ==
  [date |-> date, bracket |-> bracket, dash |-> dash, content |-> content]

\* the characters of a date as it stands in a line; the ten characters
\* "YYYY-MM-DD" are written as one
dateChars(date, bracket) ==
  IF bracket THEN <<"[", ToString(date), "]">> ELSE <<ToString(date)>>

\* the characters of a todo line
todoLineChars(line) ==
  (IF line.date # 0 THEN dateChars(line.date, line.bracket) \o <<" ">> ELSE <<>>)
    \o (IF line.dash THEN <<"-", " ">> ELSE <<>>)
    \o line.content

\* parseLines, type 'todos': one line; the items of todos have neither time
\* nor rawTimestamp, and nothing reads the values the model puts there
parseTodoLine(line, id) ==
  LET \* /^(\d{4}-\d{2}-\d{2})\s*-\s*(.*)$/ matches a date that is not in
      \* brackets and is followed by "-"
      match == line.date # 0 /\ ~line.bracket /\ line.dash
      datePart == IF match THEN line.date ELSE 0
      \* contentPart.startsWith('-')
      startsWithDash == line.date = 0 /\ line.dash
      contentPart ==
        IF match \/ startsWithDash THEN trim(line.content)
        ELSE trim(todoLineChars(line))
  IN ParsedItem(id, datePart, NoTimeText, contentPart, 0)

RECURSIVE parseLines(_, _)
\* parseLines: every line, each with a new id, parsed as the type of the
\* dialog says
parseLines(rawText, taken) ==
  IF rawText = <<>> THEN <<>>
  ELSE LET id == generateId("preview", taken)
           item == IF importModal.open = "logs"
                     THEN parseLogLine(Head(rawText), id)
                     ELSE parseTodoLine(Head(rawText), id)
       IN <<item>> \o parseLines(Tail(rawText), taken \cup {id})

\* a key that compares the contents as they are written
logKey_caseSensitive(item) == <<item.rawTimestamp, item.content>>

\* `${item.rawTimestamp}-${item.content}`.toLowerCase()
logKey(item) == <<item.rawTimestamp, mapSeq(item.content, toLower)>>

\* `${item.date}-${item.content}`.toLowerCase()
todoKey(item) == <<item.date, mapSeq(item.content, toLower)>>

\* keyStr of handleParse
keyStr(item) == IF importModal.open = "logs" THEN logKey(item) ELSE todoKey(item)

RECURSIVE dedup(_, _, _, _)
\* the loop of handleParse: the first item of a key goes to the preview
\* list, the id of a later one goes to the duplicates
dedup(items, dedupSet, finalList, dups) ==
  IF items = <<>> THEN [finalList |-> finalList, dups |-> dups]
  ELSE LET item == Head(items)
       IN IF keyStr(item) \in dedupSet
            THEN dedup(Tail(items), dedupSet, finalList, dups \cup {item.id})
            ELSE dedup(Tail(items), dedupSet \cup {keyStr(item)},
                       Append(finalList, item), dups)

\* the Import button of the logs panel
openImportLogs ==
  /\ pageActive
  /\ importModal' = [closedImport EXCEPT !.open = "logs"]
  /\ UNCHANGED <<user, storage, logs, todos, settingVars, editVars, editingTodoId,
                 confirmModal, envVars>>

\* the Import button of the todos panel
openImportTodos ==
  /\ pageActive
  /\ importModal' = [closedImport EXCEPT !.open = "todos"]
  /\ UNCHANGED <<user, storage, logs, todos, settingVars, editVars, editingTodoId,
                 confirmModal, envVars>>

\* the Parse button; rawText is the non-blank lines of the file and the
\* pasted text
handleParse(rawText) ==
  /\ user # "none"
  /\ importModal.open # "none"
  /\ rawText # <<>>
  /\ LET linesParsed == parseLines(rawText, {})
         result == dedup(linesParsed, {}, <<>>, {})
     IN importModal' = [open |-> importModal.open,
                        importItems |-> result.finalList,
                        duplicates |-> result.dups,
                        selected |-> idsOf(result.finalList)]
  /\ UNCHANGED <<user, storage, logs, todos, settingVars, editVars, editingTodoId,
                 confirmModal, envVars>>

RECURSIVE importLogs(_, _, _)
\* the loop of handleImportLogsConfirm
importLogs(items, updated, taken) ==
  IF items = <<>> THEN updated
  ELSE LET it == Head(items)
           dKey == IF it.date # 0 THEN it.date ELSE selectedDate
           rawTS == it.rawTimestamp
           newTime == toLocaleTimeString(rawTS, timezone, timeFormat)
           id == generateId("log", taken)
           newLog == LogItem(id, newTime, it.content, rawTS)
       IN importLogs(Tail(items),
                     [updated EXCEPT
                        ![dKey] = sortLogsByTimestamp(Append(updated[dKey], newLog))],
                     taken \cup {id})

handleImportLogsConfirm(items) == importLogs(items, logs, {})

RECURSIVE importTodos(_, _, _)
\* the loop of handleImportTodosConfirm
importTodos(items, updated, taken) ==
  IF items = <<>> THEN updated
  ELSE LET it == Head(items)
           dKey == IF it.date # 0 THEN it.date ELSE selectedDate
           id == generateId("todo", taken)
           newTodo == TodoItem(id, it.content, "null")
       IN importTodos(Tail(items),
                      [updated EXCEPT ![dKey] = Append(updated[dKey], newTodo)],
                      taken \cup {id})

handleImportTodosConfirm(items) == importTodos(items, todos, {})

\* the checkbox of a preview row: selectedMap[id] = !selectedMap[id]
toggleSelect(id) ==
  /\ user # "none"
  /\ importModal.open # "none"
  /\ id \in idsOf(importModal.importItems)
  /\ importModal' =
       [importModal EXCEPT !.selected = IF id \in importModal.selected
                                          THEN importModal.selected \ {id}
                                          ELSE importModal.selected \cup {id}]
  /\ UNCHANGED <<user, storage, logs, todos, settingVars, editVars, editingTodoId,
                 confirmModal, envVars>>

\* the remove button of a preview row
removePreviewItem(id) ==
  /\ user # "none"
  /\ importModal.open # "none"
  /\ id \in idsOf(importModal.importItems)
  /\ LET keep(x) == x.id # id
     IN importModal' =
          [importModal EXCEPT !.importItems = SelectSeq(importModal.importItems, keep),
                              !.selected = importModal.selected \ {id},
                              !.duplicates = importModal.duplicates \ {id}]
  /\ UNCHANGED <<user, storage, logs, todos, settingVars, editVars, editingTodoId,
                 confirmModal, envVars>>

selectAll ==
  /\ user # "none"
  /\ importModal.open # "none"
  /\ importModal' =
       [importModal EXCEPT !.selected = idsOf(importModal.importItems)]
  /\ UNCHANGED <<user, storage, logs, todos, settingVars, editVars, editingTodoId,
                 confirmModal, envVars>>

deselectAll ==
  /\ user # "none"
  /\ importModal.open # "none"
  /\ importModal' = [importModal EXCEPT !.selected = {}]
  /\ UNCHANGED <<user, storage, logs, todos, settingVars, editVars, editingTodoId,
                 confirmModal, envVars>>

\* a commit of the whole preview, whatever is selected
chosenItems_all == importModal.importItems

\* importItems.filter((i) => selectedMap[i.id])
chosenItems ==
  LET isSelected(i) == i.id \in importModal.selected
  IN SelectSeq(importModal.importItems, isSelected)

\* the Import button of the dialog: handleConfirm, onImportConfirm, onClose
handleConfirm ==
  /\ user # "none"
  /\ importModal.open # "none"
  /\ LET chosen == chosenItems
     IN IF importModal.open = "logs"
          THEN /\ countItems(logs) + Len(chosen) <= MaxLogs
               /\ logs' = handleImportLogsConfirm(chosen)
               /\ UNCHANGED todos
          ELSE /\ countItems(todos) + Len(chosen) <= MaxTodos + MaxImportedTodos
               /\ todos' = handleImportTodosConfirm(chosen)
               /\ UNCHANGED logs
  /\ importModal' = closedImport
  /\ UNCHANGED <<user, settingVars, editVars, editingTodoId, confirmModal,
                 envVars>>
  /\ saveEffect

\* the Cancel button of the dialog
closeImport ==
  /\ user # "none"
  /\ importModal.open # "none"
  /\ importModal' = closedImport
  /\ UNCHANGED <<user, storage, logs, todos, settingVars, editVars, editingTodoId,
                 confirmModal, envVars>>

(***************************************************************************)
(* The log store: every operation that writes logs or the settings, for    *)
(* one identity, with one content text                                     *)
(***************************************************************************)
\* the pasted text of the log store specification: the dated line
\* "YYYY-MM-DD 12:20 PM - a", with the last date
SpecTexts == {<<LogLine(NumDates, FALSE, TimeText(12, 20, "PM"), TRUE, <<"a">>)>>}

Next ==
  \/ handleLoginSubmit("admin", "admin")
  \/ \E tz \in Timezones : handleTimezoneChange(tz)
  \/ \E f \in TimeFormats : handleTimeFormatChange(f)
  \/ \E d \in Dates : setSelectedDate(d)
  \/ Tick
  \/ addLog(<<"a">>)
  \/ \E id \in idsOf(dayLogs) : removeLog(id)
  \/ \E id \in idsOf(dayLogs) : startEditingLog(id)
  \/ \E id \in idsOf(dayLogs) : saveLogEdits(id, itemById(dayLogs, id).time, <<"a">>)
  \/ cancelLogEdit
  \/ \E id \in idsOf(dayTodos) : copyTodoToLog(id)
  \/ openImportLogs
  \/ \E text \in SpecTexts : handleParse(text)
  \/ handleConfirm
  \/ closeImport

Spec == InitSaved /\ [][Next]_vars

(***************************************************************************)
(* Properties of the log store                                             *)
(***************************************************************************)
\* C1: in every reachable state every date bucket of logs is non-decreasing
\* in rawTimestamp, a missing rawTimestamp counting as 0.
C1_BucketsSorted ==
  \A d \in Dates :
    \A i, j \in 1..Len(logs[d]) :
      i < j => tsOrZero(logs[d][i]) <= tsOrZero(logs[d][j])

\* a bucket whose later-created log stands before an earlier-created one with
\* a greater timestamp: the sort has moved it
C1_Witness ==
  \E d \in Dates :
    /\ Len(logs[d]) = 2
    /\ logs[d][1].id > logs[d][2].id
    /\ tsOrZero(logs[d][1]) < tsOrZero(logs[d][2])

C7_ConversionFrame ==
  [][(user' = user /\ (timezone' # timezone \/ timeFormat' # timeFormat)) =>
       \A d \in Dates :
         /\ Len(logs'[d]) = Len(logs[d])
         /\ \A i \in 1..Len(logs[d]) :
              \E j \in 1..Len(logs'[d]) :
                /\ logs'[d][j].id = logs[d][i].id
                /\ logs'[d][j].content = logs[d][i].content
                /\ logs'[d][j].hasTS = logs[d][i].hasTS
                /\ logs'[d][j].rawTimestamp = logs[d][i].rawTimestamp
                /\ logs'[d][j].time =
                     IF logs[d][i].hasTS
                       THEN toLocaleTimeString(logs[d][i].rawTimestamp,
                                               timezone', timeFormat')
                       ELSE logs[d][i].time]_vars

\* the log added at the first instant, shown in Tokyo next to a log without
\* rawTimestamp
C7_Witness ==
  /\ timezone = "Asia/Tokyo"
  /\ timeFormat = "12"
  /\ \E d \in Dates :
       /\ \E i \in 1..Len(logs[d]) : ~logs[d][i].hasTS
       /\ \E i \in 1..Len(logs[d]) :
            /\ logs[d][i].hasTS
            /\ logs[d][i].rawTimestamp = Instant(1)
            /\ logs[d][i].time = TimeText(12, 20, "PM")

\* C8: converting the logs twice with the same timezone and format gives
\* the same LogsByDate, display times and order, as converting them once.
C8_ConvertIdempotent ==
  \A tz \in Timezones, f \in TimeFormats :
    convertAllLogs(convertAllLogs(logs, tz, f), tz, f) = convertAllLogs(logs, tz, f)

\* a bucket with two logs of the same instant, which a conversion re-renders
C8_Witness ==
  /\ \E d \in Dates :
       /\ Len(logs[d]) = 2
       /\ logs[d][1].hasTS /\ logs[d][2].hasTS
       /\ logs[d][1].rawTimestamp = logs[d][2].rawTimestamp
  /\ convertAllLogs(logs, "Asia/Tokyo", "24") # logs

\* the instant truncated to the minute
floorMinute(ts) == (ts \div MsPerMin) * MsPerMin

\* the calendar date a zone shows at an instant
wallDate(ts, tz) == toISODate(ts + TzOffset(tz))

\* C9: for every log with a rawTimestamp, every timezone and every format
\* in which the log's bucket is the date the zone shows at that instant,
\* rendering the instant, parsing the text under the same format and
\* composing it with the bucket's date gives back the instant truncated to
\* the minute.
C9_RoundTrip ==
  \A d \in Dates :
    \A i \in 1..Len(logs[d]) :
      \A tz \in Timezones, f \in TimeFormats :
        (logs[d][i].hasTS /\ wallDate(logs[d][i].rawTimestamp, tz) = d) =>
          LET text == toLocaleTimeString(logs[d][i].rawTimestamp, tz, f)
              parsed == parseEditedTime(text, f)
          IN /\ parsed.ok
             /\ composeTimestamp(now, tz, hostTz, d, parsed.hour, parsed.minute)
                  = floorMinute(logs[d][i].rawTimestamp)

(***************************************************************************)
(* The page with its todo list: logs and todos of fixed settings           *)
(***************************************************************************)
TodoTexts == {<<"a">>}
LogTexts == {<<"a">>, <<"b">>}

NextTodos ==
  \/ handleLoginSubmit("admin", "admin")
  \/ \E d \in Dates : setSelectedDate(d)
  \/ \E text \in LogTexts : addLog(text)
  \/ \E id \in idsOf(dayLogs) : removeLog(id)
  \/ \E id \in idsOf(dayLogs) : startEditingLog(id)
  \/ \E id \in idsOf(dayLogs), text \in LogTexts :
       saveLogEdits(id, itemById(dayLogs, id).time, text)
  \/ \E text \in TodoTexts : addTodo(text)
  \/ \E id \in idsOf(dayTodos) : removeTodo(id)
  \/ \E id \in idsOf(dayTodos) : toggleTodo(id)
  \/ \E id \in idsOf(dayTodos) : copyTodoToLog(id)
  \/ confirmClearAll("logs")
  \/ onConfirm

SpecTodos == Init /\ [][NextTodos]_vars

\* effective completion as the todo list is to show it: the override when
\* there is one, else whether a log of the bucket matches
effectiveCompletion(todo, bucket) ==
  IF todo.manualOverride # "null"
    THEN todo.manualOverride = "true"
    ELSE \E i \in 1..Len(bucket) : todoMatchesLog(todo.content, bucket[i].content)

\* C2: in every reachable state the completion the page computes for a todo
\* of the selected date is its manualOverride when that is set, and else
\* whether some log now in the bucket of the selected date matches it.
C2_CompletionDerived ==
  \A i \in 1..Len(dayTodos) :
    isTodoCompleted(dayTodos[i]) = effectiveCompletion(dayTodos[i], dayLogs)

\* an un-toggled todo completed by a matching log that stands next to a log
\* that does not match
C2_Witness ==
  \E i \in 1..Len(dayTodos) :
    /\ dayTodos[i].manualOverride = "null"
    /\ isTodoCompleted(dayTodos[i])
    /\ \E j \in 1..Len(dayLogs) :
         ~todoMatchesLog(dayTodos[i].content, dayLogs[j].content)

\* C3: a toggle sets the override of the toggled todo to the negation of its
\* effective completion before the step, whatever the override and the
\* match were, and its effective completion after the step is that negation.
C3_ToggleNegates ==
  [][\A id \in idsOf(dayTodos) :
       toggleTodo(id) =>
         LET before == effectiveCompletion(itemById(dayTodos, id), dayLogs)
             after == itemById(dayTodos, id)'
         IN /\ after.manualOverride = boolStr(~before)
            /\ effectiveCompletion(after, dayLogs') = ~before]_vars

\* a todo toggled to complete although a log matches it
C3_Witness ==
  \E i \in 1..Len(dayTodos) :
    /\ dayTodos[i].manualOverride = "true"
    /\ getLogMatchState(dayTodos[i])

\* C4: when a todo no log of its date matches is toggled, a second toggle
\* with the logs as they are gives it the effective completion it had before
\* the first.
C4_ToggleTwice ==
  [][\A id \in idsOf(dayTodos) :
       (toggleTodo(id) /\ ~getLogMatchState(itemById(dayTodos, id))) =>
         LET before == effectiveCompletion(itemById(dayTodos, id), dayLogs)
             once == itemById(dayTodos, id)'
             twice == flipTodo(once, logs', selectedDate')
         IN /\ effectiveCompletion(once, dayLogs') = ~before
            /\ effectiveCompletion(twice, dayLogs') = before]_vars

\* a todo no log matches, toggled to incomplete
C4_Witness ==
  \E i \in 1..Len(dayTodos) :
    /\ dayTodos[i].manualOverride = "false"
    /\ ~getLogMatchState(dayTodos[i])

\* C5: the toggle of a todo that a log of its date matches and that shows
\* complete leaves it incomplete, and a todo whose override stays false over
\* a step is incomplete after the step, whatever logs the step adds.
C5_ToggleBeatsMatch ==
  [][\A id \in idsOf(dayTodos) :
       LET t == itemById(dayTodos, id)
       IN /\ (toggleTodo(id) /\ t.manualOverride # "false" /\ getLogMatchState(t))
               => ~isTodoCompleted(itemById(dayTodos, id))'
          /\ (/\ t.manualOverride = "false"
              /\ selectedDate' = selectedDate
              /\ id \in idsOf(dayTodos')
              /\ itemById(dayTodos, id)'.manualOverride = "false")
               => ~isTodoCompleted(itemById(dayTodos, id))']_vars

\* a todo toggled to incomplete with two matching logs on its date
C5_Witness ==
  \E i \in 1..Len(dayTodos) :
    /\ dayTodos[i].manualOverride = "false"
    /\ \E j, k \in 1..Len(dayLogs) :
         /\ j < k
         /\ todoMatchesLog(dayTodos[i].content, dayLogs[j].content)
         /\ todoMatchesLog(dayTodos[i].content, dayLogs[k].content)

(***************************************************************************)
(* The matcher applied to arbitrary contents                               *)
(***************************************************************************)
\* the greatest length of a content the matcher is applied to
MaxLen == 2

Strings == UNION {[1..n -> Alphabet] : n \in 0..MaxLen}

MatchInputs == {<<todoContent, logContent>> : todoContent \in Strings,
                                              logContent \in Strings}

InitMatch == \E input \in MatchInputs : InitWith(Unsaved, input)

\* one call of todoMatchesLog on the contents chosen
applyTodoMatchesLog ==
  /\ fnIn # <<>>
  /\ fnOut = <<>>
  /\ fnOut' = <<todoMatchesLog(fnIn[1], fnIn[2])>>
  /\ UNCHANGED <<user, storage, logs, todos, settingVars, editVars, editingTodoId,
                 modalVars, now, hostTz, crashed, fnIn>>

NextMatch == applyTodoMatchesLog

SpecMatch == InitMatch /\ [][NextMatch]_vars

\* C10: the matcher applied to an empty todo content answers false, whatever
\* the log content.
C10_EmptyMatchesNothing ==
  (fnIn # <<>> /\ fnOut # <<>> /\ fnIn[1] = <<>>) => fnOut[1] = FALSE

\* the text in lower case
lowerCase(s) == [k \in 1..Len(s) |-> toLower(s[k])]

\* whether the p-th character of the text exists and is a word character
wordAt(text, p) == p \in 1..Len(text) /\ isWordChar(text[p])

\* the phrase stands in the text right after its i-th character, case
\* ignored, with a change between word and non-word character on each side
phraseOccursAt(phrase, text, i) ==
  /\ i + Len(phrase) <= Len(text)
  /\ lowerCase(SubSeq(text, i + 1, i + Len(phrase))) = lowerCase(phrase)
  /\ wordAt(text, i) # wordAt(text, i + 1)
  /\ wordAt(text, i + Len(phrase)) # wordAt(text, i + Len(phrase) + 1)

ImportLogTexts ==
  {<<LogLine(0, FALSE, TimeText(12, 20, "PM"), TRUE, <<"a">>),
     LogLine(0, FALSE, TimeText(12, 20, "PM"), TRUE, <<"a">>)>>,
   <<LogLine(0, FALSE, TimeText(12, 20, "PM"), TRUE, <<"a">>),
     LogLine(0, FALSE, TimeText(12, 20, "PM"), TRUE, <<"A">>)>>,
   <<LogLine(NumDates, FALSE, TimeText(12, 20, "PM"), TRUE, <<"a">>),
     LogLine(0, FALSE, NoTimeText, FALSE, <<"b">>)>>,
   <<LogLine(0, FALSE, NoTimeText, TRUE, <<"b">>)>>}

\* the pasted todo texts: "- a" and "A"; "YYYY-MM-DD - a" with the last date
ImportTodoTexts ==
  {<<TodoLine(0, FALSE, TRUE, <<"a">>), TodoLine(0, FALSE, FALSE, <<"A">>)>>,
   <<TodoLine(NumDates, FALSE, TRUE, <<"a">>)>>}

ImportTexts(type) == IF type = "logs" THEN ImportLogTexts ELSE ImportTodoTexts

NextImport ==
  \/ handleLoginSubmit("admin", "admin")
  \/ \E d \in Dates : setSelectedDate(d)
  \/ openImportLogs
  \/ openImportTodos
  \/ \E text \in ImportTexts(importModal.open) : handleParse(text)
  \/ \E id \in idsOf(importModal.importItems) : toggleSelect(id)
  \/ \E id \in idsOf(importModal.importItems) : removePreviewItem(id)
  \/ selectAll
  \/ deselectAll
  \/ handleConfirm
  \/ closeImport

SpecImport == Init /\ [][NextImport]_vars

\* C12: every line that Parse parsed is in the preview list: an item flagged
\* as a duplicate is one of the items the preview shows.
C12_DuplicatesInPreview ==
  importModal.duplicates \subseteq idsOf(importModal.importItems)

\* the dedup key the import is to use: the canonical timestamp of a log,
\* the date of a todo, each with the content in lower case
claimKey(item, type) ==
  IF type = "logs" THEN <<item.rawTimestamp, lowerCase(item.content)>>
  ELSE <<item.date, lowerCase(item.content)>>

\* the positions of the items that are the first of their key
firstOccurrences(parsed, type) ==
  {k \in 1..Len(parsed) :
     \A j \in 1..(k - 1) : claimKey(parsed[j], type) # claimKey(parsed[k], type)}

\* the items at the given positions, in their order
itemsAt(parsed, positions) ==
  [i \in 1..Cardinality(positions) |->
     parsed[CHOOSE k \in positions : Cardinality({j \in positions : j <= k}) = i]]

\* C13: Parse keeps, in order, the first item of every key (timestamp and
\* lower-case content for logs, date and lower-case content for todos),
\* selects exactly those and flags every other item as a duplicate; a
\* confirm with that default selection adds as many entries as there are keys.
C13_DedupFirstWins ==
  [][/\ \A text \in ImportTexts(importModal.open) :
          handleParse(text) =>
            LET parsed == parseLines(text, {})
                firsts == firstOccurrences(parsed, importModal.open)
            IN /\ importModal'.importItems = itemsAt(parsed, firsts)
               /\ importModal'.selected = {parsed[k].id : k \in firsts}
               /\ importModal'.duplicates =
                    {parsed[k].id : k \in (1..Len(parsed)) \ firsts}
     /\ (handleConfirm /\ importModal.selected = idsOf(importModal.importItems)) =>
          LET keys == {claimKey(importModal.importItems[i], importModal.open) :
                         i \in 1..Len(importModal.importItems)}
          IN countItems(logs') + countItems(todos')
               = countItems(logs) + countItems(todos) + Cardinality(keys)]_vars

\* the preview of two log lines of one timestamp and content: one item, one
\* flagged duplicate
C13_Witness ==
  /\ importModal.open = "logs"
  /\ Len(importModal.importItems) = 1
  /\ Cardinality(importModal.duplicates) = 1
  /\ importModal.selected = idsOf(importModal.importItems)

(***************************************************************************)
(* The editing of logs: every text the time and content fields can hold    *)
(***************************************************************************)
NextEdit ==
  \/ handleLoginSubmit("admin", "admin")
  \/ Tick
  \/ addLog(<<"a">>)
  \/ \E id \in idsOf(dayLogs) : removeLog(id)
  \/ \E id \in idsOf(dayLogs) : startEditingLog(id)
  \/ \E id \in idsOf(dayLogs) :
       \E t \in timeFieldValues(itemById(dayLogs, id)),
          c \in contentFieldValues(itemById(dayLogs, id)) :
         saveLogEdits(id, t, c)
  \/ cancelLogEdit

SpecEdit == InitSaved /\ [][NextEdit]_vars

\* C14: a save of a log edit whose time text has no H:MM-shaped substring
\* leaves the logs in memory and in storage as they were, sets the error
\* 'Invalid time format' and leaves the entry in editing mode.
C14_InvalidTimeKeepsEntry ==
  [][\A id \in idsOf(dayLogs) :
       \A t \in timeFieldValues(itemById(dayLogs, id)),
          c \in contentFieldValues(itemById(dayLogs, id)) :
         (saveLogEdits(id, t, c) /\ t.shape # "hm") =>
           /\ logs' = logs
           /\ storage' = storage
           /\ editError' = "Invalid time format"
           /\ editingLogId' = id]_vars

\* an entry in editing mode with the error shown
C14_Witness ==
  /\ editError = "Invalid time format"
  /\ editingLogId \in idsOf(dayLogs)

(***************************************************************************)
(* The time parsers applied to arbitrary time texts                        *)
(***************************************************************************)
\* the hours and minutes the texts are written with, and their suffixes
ParseHours == {0, 9, 12, 21}
ParseMinutes == {0, 15}
Suffixes == {"", "AM", "PM"}

ParseTexts ==
  {TimeText(hh, mm, ampm) : hh \in ParseHours, mm \in ParseMinutes, ampm \in Suffixes}
    \cup {NoTimeText}

ParseInputs ==
  {<<fn, text, fmt>> : fn \in {"parseEditedTime", "parseTimePart"},
                       text \in ParseTexts, fmt \in TimeFormats}

InitParse == \E input \in ParseInputs : InitWith(Unsaved, input)

\* one call of parseEditedTime on the text and format chosen
applyParseEditedTime ==
  /\ fnIn # <<>>
  /\ fnIn[1] = "parseEditedTime"
  /\ fnOut = <<>>
  /\ fnOut' = <<parseEditedTime(fnIn[2], fnIn[3])>>
  /\ UNCHANGED <<user, storage, logs, todos, settingVars, editVars, editingTodoId,
                 modalVars, now, hostTz, crashed, fnIn>>

\* one call of parseTimePart on the text and format chosen
applyParseTimePart ==
  /\ fnIn # <<>>
  /\ fnIn[1] = "parseTimePart"
  /\ fnOut = <<>>
  /\ fnOut' = <<parseTimePart(fnIn[2], fnIn[3])>>
  /\ UNCHANGED <<user, storage, logs, todos, settingVars, editVars, editingTodoId,
                 modalVars, now, hostTz, crashed, fnIn>>

NextParse == applyParseEditedTime \/ applyParseTimePart

SpecParse == InitParse /\ [][NextParse]_vars

\* the hour of the day a 12-hour clock text names
twelveHour(hh, ampm) ==
  IF ampm = "PM" /\ hh < 12 THEN hh + 12
  ELSE IF ampm = "AM" /\ hh = 12 THEN 0
  ELSE hh

\* C15: a text with an AM/PM suffix parses with 12-hour arithmetic under
\* either format: the hour is that of the 12-hour clock, the minute as
\* written.
C15_SuffixOverridesFormat ==
  (fnIn # <<>> /\ fnOut # <<>> /\ fnIn[2].shape = "hm" /\ fnIn[2].ampm # "") =>
    /\ fnOut[1].ok
    /\ fnOut[1].hour = twelveHour(fnIn[2].hh, fnIn[2].ampm)
    /\ fnOut[1].minute = fnIn[2].mm

(***************************************************************************)
(* The session: two identities that log in and out of one browser, whose   *)
(* storage holds a snapshot of admin that may be corrupt                   *)
(***************************************************************************)
\* the keys of the stored snapshot whose text is not JSON
Corruptions == {{}, {"logs"}, {"todos"}}

InitSession ==
  \E c \in Corruptions : InitWith([SavedSnapshot EXCEPT !.corrupt = c], <<>>)

NextSession ==
  \/ \E u \in Users : handleLoginSubmit(u, password(u))
  \/ handleLogout
  \/ \E tz \in Timezones : handleTimezoneChange(tz)
  \/ \E f \in TimeFormats : handleTimeFormatChange(f)
  \/ \E d \in Dates : setSelectedDate(d)
  \/ addLog(<<"a">>)
  \/ \E text \in InputTexts : addTodo(text)

SpecSession == InitSession /\ [][NextSession]_vars

\* C16: a login of an identity whose stored logs or todos are corrupt does
\* not crash the page: the identity is logged in, the corrupt record reads as
\* empty and the other records are loaded.
C16_CorruptFallsBack ==
  [][\A u \in Users :
       (handleLoginSubmit(u, password(u)) /\ storage[u].saved) =>
         /\ ~crashed'
         /\ user' = u
         /\ logs' = IF "logs" \in storage[u].corrupt THEN EmptyByDate
                    ELSE storage[u].logs
         /\ todos' = IF "todos" \in storage[u].corrupt THEN EmptyByDate
                     ELSE storage[u].todos
         /\ timezone' = storage[u].timezone
         /\ timeFormat' = storage[u].timeFormat
         /\ selectedDate' = storage[u].selectedDate]_vars

\* what the page is to hold after a login: the snapshot of the identity, or
\* the values of a newly mounted page where it has none
ownSnapshot(u) ==
  IF storage[u].saved
    THEN [logs |-> storage[u].logs, todos |-> storage[u].todos,
          timezone |-> storage[u].timezone, timeFormat |-> storage[u].timeFormat,
          selectedDate |-> storage[u].selectedDate]
    ELSE [logs |-> EmptyByDate, todos |-> EmptyByDate,
          timezone |-> hostTz, timeFormat |-> "12",
          selectedDate |-> toISODate(now)]

\* C17: after a login the logs, todos, timezone, time format and selected
\* date in memory are the snapshot stored for that identity, or the defaults
\* where it has none, the same values are what its storage keys hold, and
\* the records of the other identities are untouched.
C17_LoginLoadsOwnSnapshot ==
  [][\A u \in Users :
       (handleLoginSubmit(u, password(u)) /\ storage[u].corrupt = {}) =>
         /\ user' = u
         /\ logs' = ownSnapshot(u).logs
         /\ todos' = ownSnapshot(u).todos
         /\ timezone' = ownSnapshot(u).timezone
         /\ timeFormat' = ownSnapshot(u).timeFormat
         /\ selectedDate' = ownSnapshot(u).selectedDate
         /\ storage'[u].logs = ownSnapshot(u).logs
         /\ storage'[u].todos = ownSnapshot(u).todos
         /\ storage'[u].timezone = ownSnapshot(u).timezone
         /\ storage'[u].timeFormat = ownSnapshot(u).timeFormat
         /\ storage'[u].selectedDate = ownSnapshot(u).selectedDate
         /\ \A v \in Users \ {u} : storage'[v] = storage[v]]_vars

\* C18: Parse of a log text gives one item per line, in the preview or among
\* the flagged duplicates, and the item of a line whose time part has no
\* H:MM-shaped substring has the whole line as its content, no date of its
\* own, the current time as its display time and the current minute as its
\* timestamp.
C18_UnparsableLineDegrades ==
  [][\A text \in ImportLogTexts :
       (importModal.open = "logs" /\ handleParse(text)) =>
         LET parsed == parseLines(text, {})
         IN /\ Len(importModal'.importItems) + Cardinality(importModal'.duplicates)
                 = Len(text)
            /\ \A k \in 1..Len(text) :
                 text[k].time.shape # "hm" =>
                   /\ ~text[k].sep
                   /\ parsed[k].content = trim(text[k].content)
                   /\ parsed[k].date = 0
                   /\ parsed[k].time = toLocaleTimeString(now, timezone, timeFormat)
                   /\ parsed[k].rawTimestamp = floorMinute(now)]_vars

\* the bucket an imported item is to go to: its own date, or the selected one
bucketOf(item) == IF item.date # 0 THEN item.date ELSE selectedDate

\* the positions of the preview items that are selected and go to date d
selectedFor(d) ==
  {i \in 1..Len(importModal.importItems) :
     /\ importModal.importItems[i].id \in importModal.selected
     /\ bucketOf(importModal.importItems[i]) = d}

\* C19: a confirm of the import dialog keeps every entry of the target store
\* and adds to each bucket one new entry per selected preview item of that
\* date (its own date, else the selected date), with the item's content and,
\* for a log, its timestamp; nothing else is added and the other store is
\* untouched.
C19_CommitSelected ==
  [][handleConfirm =>
       IF importModal.open = "logs"
         THEN /\ todos' = todos
              /\ \A d \in Dates :
                   /\ Len(logs'[d]) = Len(logs[d]) + Cardinality(selectedFor(d))
                   /\ \A i \in 1..Len(logs[d]) :
                        \E j \in 1..Len(logs'[d]) : logs'[d][j] = logs[d][i]
                   /\ \A i \in selectedFor(d) :
                        \E j \in 1..Len(logs'[d]) :
                          /\ logs'[d][j].id \notin idsOf(logs[d])
                          /\ logs'[d][j].content = importModal.importItems[i].content
                          /\ logs'[d][j].hasTS
                          /\ logs'[d][j].rawTimestamp
                               = importModal.importItems[i].rawTimestamp
         ELSE /\ logs' = logs
              /\ \A d \in Dates :
                   /\ Len(todos'[d]) = Len(todos[d]) + Cardinality(selectedFor(d))
                   /\ \A i \in 1..Len(todos[d]) :
                        \E j \in 1..Len(todos'[d]) : todos'[d][j] = todos[d][i]
                   /\ \A i \in selectedFor(d) :
                        \E j \in 1..Len(todos'[d]) :
                          /\ todos'[d][j].id \notin idsOf(todos[d])
                          /\ todos'[d][j].content = importModal.importItems[i].content
                          /\ todos'[d][j].manualOverride = "null"]_vars

\* the store after a commit of the text whose first line was deselected or
\* removed: the whole-line item "b" is there, the item "a" is not
C19_Witness ==
  /\ importModal.open = "none"
  /\ \E d \in Dates : \E i \in 1..Len(logs[d]) :
       /\ logs[d][i].content = <<"b">>
       /\ logs[d][i].rawTimestamp = floorMinute(now)
  /\ \A d \in Dates : \A i \in 1..Len(logs[d]) : logs[d][i].content # <<"a">>

\* the text of a wall clock hour and minute in a time format
clockText(hour, minute, fmt) ==
  IF fmt = "12"
    THEN TimeText(IF hour % 12 = 0 THEN 12 ELSE hour % 12, minute,
                  IF hour < 12 THEN "AM" ELSE "PM")
    ELSE TimeText(hour, minute, "")

\* C20: after a successful save of a log edit, the entry's instant is the one
\* whose wall clock in the configured timezone is the selected date at the
\* hour and minute of the time text, whatever the zone of the host: the
\* display time shows that hour and minute and the date the zone shows at
\* the instant is the selected date.
C20_ComposeInConfiguredZone ==
  [][\A id \in idsOf(dayLogs) :
       LET t == itemById(dayLogs, id).time
       IN (saveLogEdits(id, t, <<"a">>) /\ t.shape = "hm") =>
            LET p == parseEditedTime(t, timeFormat)
                after == itemById(dayLogs, id)'
            IN /\ after.time = clockText(p.hour, p.minute, timeFormat)
               /\ wallDate(after.rawTimestamp, timezone) = selectedDate]_vars

(***************************************************************************)
(* The contents the page stores: texts typed into the add and edit fields, *)
(* blank ones included, and lines of the plain-text interchange format     *)
(***************************************************************************)
\* the pasted log texts, each of one line, with the last date:
\*   "[YYYY-MM-DD] 12:20 PM - a",
\*   "YYYY-MM-DD 12:20 PM - a",
\*   "YYYY-MM-DD 12:20 PM" (a dated line without " - ")
FormatLogTexts ==
  {<<LogLine(NumDates, TRUE, TimeText(12, 20, "PM"), TRUE, <<"a">>)>>,
   <<LogLine(NumDates, FALSE, TimeText(12, 20, "PM"), TRUE, <<"a">>)>>,
   <<LogLine(NumDates, FALSE, TimeText(12, 20, "PM"), FALSE, <<>>)>>}

\* the pasted todo texts, each of one line, with the last date:
\*   "[YYYY-MM-DD] - a", "YYYY-MM-DD - a", "- a", "-"
FormatTodoTexts ==
  {<<TodoLine(NumDates, TRUE, TRUE, <<"a">>)>>,
   <<TodoLine(NumDates, FALSE, TRUE, <<"a">>)>>,
   <<TodoLine(0, FALSE, TRUE, <<"a">>)>>,
   <<TodoLine(0, FALSE, TRUE, <<>>)>>}

FormatTexts(type) == IF type = "logs" THEN FormatLogTexts ELSE FormatTodoTexts

\* what is typed into the add fields: "a" and a blank
AddTexts == {<<"a">>, <<" ">>}

\* what is typed into the content field of a row being edited: "b " and a
\* blank
EditTexts == {<<"b", " ">>, <<" ">>}

NextContent ==
  \/ handleLoginSubmit("admin", "admin")
  \/ \E text \in AddTexts : addLog(text)
  \/ \E id \in idsOf(dayLogs) : startEditingLog(id)
  \/ \E id \in idsOf(dayLogs), text \in EditTexts :
       saveLogEdits(id, itemById(dayLogs, id).time, text)
  \/ \E text \in AddTexts : addTodo(text)
  \/ \E id \in idsOf(dayTodos) : startEditingTodo(id)
  \/ \E id \in idsOf(dayTodos), text \in EditTexts : saveTodoEdits(id, text)
  \/ openImportLogs
  \/ openImportTodos
  \/ \E text \in FormatTexts(importModal.open) : handleParse(text)
  \/ handleConfirm
  \/ closeImport

SpecContent == Init /\ [][NextContent]_vars

\* C21: Parse of a line that starts with a date in brackets gives an item of
\* that date, which is the bucket a confirm files it under whatever date is
\* selected, whose content is the text after the separator.
C21_BracketedDateImported ==
  [][\A text \in FormatTexts(importModal.open) :
       (importModal.open # "none" /\ handleParse(text)) =>
         \A k \in 1..Len(text) :
           (text[k].date # 0 /\ text[k].bracket) =>
             LET item == importModal'.importItems[k]
             IN /\ item.date = text[k].date
                /\ item.content = trim(text[k].content)
                /\ bucketOf(item) = text[k].date]_vars

(***************************************************************************)
(* A stored todo through every operation of the page that is not its own   *)
(* removal                                                                 *)
(***************************************************************************)
\* the pasted todo text "- a"
OverrideTexts == {<<TodoLine(0, FALSE, TRUE, <<"a">>)>>}

NextOverride ==
  \/ handleLoginSubmit("admin", "admin")
  \/ \E tz \in Timezones : handleTimezoneChange(tz)
  \/ addLog(<<"a">>)
  \/ \E id \in idsOf(dayLogs) : removeLog(id)
  \/ \E id \in idsOf(dayLogs) : startEditingLog(id)
  \/ \E id \in idsOf(dayLogs) :
       saveLogEdits(id, itemById(dayLogs, id).time, <<"b", " ">>)
  \/ \E id \in idsOf(dayTodos) : toggleTodo(id)
  \/ \E id \in idsOf(dayTodos) : startEditingTodo(id)
  \/ \E id \in idsOf(dayTodos) : saveTodoEdits(id, <<"b", " ">>)
  \/ confirmClearAll("logs")
  \/ onConfirm
  \/ openImportTodos
  \/ \E text \in OverrideTexts : handleParse(text)
  \/ handleConfirm

SpecOverride == InitSaved /\ [][NextOverride]_vars

(***************************************************************************)
(* The editing of contents: the stored log and the stored todo, toggled or *)
(* not, edited with a blank and with a non-blank text                      *)
(***************************************************************************)
NextContentEdit ==
  \/ handleLoginSubmit("admin", "admin")
  \/ \E id \in idsOf(dayLogs) : startEditingLog(id)
  \/ \E id \in idsOf(dayLogs), text \in EditTexts :
       saveLogEdits(id, itemById(dayLogs, id).time, text)
  \/ cancelLogEdit
  \/ \E text \in AddTexts : addTodo(text)
  \/ \E id \in idsOf(dayTodos) : removeTodo(id)
  \/ \E id \in idsOf(dayTodos) : toggleTodo(id)
  \/ \E id \in idsOf(dayTodos) : startEditingTodo(id)
  \/ \E id \in idsOf(dayTodos), text \in EditTexts : saveTodoEdits(id, text)
  \/ cancelTodoEdit

SpecContentEdit == InitSaved /\ [][NextContentEdit]_vars

\* C22: a save of a todo edit leaves the manualOverride of the todo as it
\* was, and a save of a todo edit or of a log edit whose new content is blank
\* leaves the content of the entry as it was.
C22_EditKeepsOverrideAndContent ==
  [][/\ \A id \in idsOf(dayTodos), text \in EditTexts :
          saveTodoEdits(id, text) =>
            LET before == itemById(dayTodos, id)
                after == itemById(dayTodos, id)'
            IN /\ after.manualOverride = before.manualOverride
               /\ trim(text) = <<>> => after.content = before.content
     /\ \A id \in idsOf(dayLogs), text \in EditTexts :
          (saveLogEdits(id, itemById(dayLogs, id).time, text) /\ trim(text) = <<>>)
            => itemById(dayLogs, id)'.content = itemById(dayLogs, id).content]_vars

\* a toggled todo whose content is the one only an edit writes, no edit
\* being open
C22_Witness ==
  /\ editingTodoId = 0
  /\ \E i \in 1..Len(dayTodos) :
       /\ dayTodos[i].manualOverride # "null"
       /\ dayTodos[i].content = <<"b">>

\* C23: a save of a log edit leaves in every bucket the same set of entry
\* ids; a time text whose hour is past 23 is accepted, the entry leaves the
\* editing mode without error and its timestamp is on the calendar day after
\* the selected date.
C23_EditKeepsBucket ==
  [][\A id \in idsOf(dayLogs) :
       \A t \in timeFieldValues(itemById(dayLogs, id)),
          c \in contentFieldValues(itemById(dayLogs, id)) :
         saveLogEdits(id, t, c) =>
           /\ \A d \in Dates :
                /\ idsOf(logs'[d]) = idsOf(logs[d])
                /\ Len(logs'[d]) = Len(logs[d])
           /\ (t.shape = "hm" /\ t.hh > 23) =>
                /\ editError' = ""
                /\ editingLogId' = 0
                /\ itemById(dayLogs, id)'.hasTS
                /\ wallDate(itemById(dayLogs, id)'.rawTimestamp, timezone)
                     = selectedDate + 1]_vars

\* an entry of the selected date, out of editing mode, whose timestamp is
\* 1:00 AM of the day after
C23_Witness ==
  /\ editingLogId = 0
  /\ \E i \in 1..Len(dayLogs) :
       /\ dayLogs[i].hasTS
       /\ wallDate(dayLogs[i].rawTimestamp, timezone) = selectedDate + 1
       /\ dayLogs[i].time = TimeText(1, 0, "AM")

(***************************************************************************)
(* The Clear buttons and their confirm dialog                              *)
(***************************************************************************)
NextClear ==
  \/ handleLoginSubmit("admin", "admin")
  \/ \E d \in Dates : setSelectedDate(d)
  \/ Tick
  \/ addLog(<<"a">>)
  \/ addTodo(<<"a">>)
  \/ \E type \in {"logs", "todos"} : confirmClearAll(type)
  \/ onConfirm
  \/ onCancel

SpecClear == InitSaved /\ [][NextClear]_vars

\* C24: the request of a clear and its cancellation leave logs and todos as
\* they are; the confirmation empties the bucket of the requested store for
\* the date selected at the request, which is still the selected date, and
\* leaves every other bucket and the other store as they are; and no other
\* step of a session takes more than one entry out of a bucket.
C24_ClearOnlyOnConfirm ==
  [][/\ (\E type \in {"logs", "todos"} : confirmClearAll(type)) =>
          (logs' = logs /\ todos' = todos /\ storage' = storage)
     /\ onCancel => (logs' = logs /\ todos' = todos /\ storage' = storage)
     /\ onConfirm =>
          /\ confirmModal.date = selectedDate
          /\ IF confirmModal.type = "logs"
               THEN /\ logs'[selectedDate] = <<>>
                    /\ \A d \in Dates \ {selectedDate} : logs'[d] = logs[d]
                    /\ todos' = todos
               ELSE /\ todos'[selectedDate] = <<>>
                    /\ \A d \in Dates \ {selectedDate} : todos'[d] = todos[d]
                    /\ logs' = logs
     /\ (user' = user /\ \E d \in Dates : Len(logs'[d]) < Len(logs[d])) =>
          (confirmModal.visible /\ confirmModal.type = "logs" /\ ~confirmModal'.visible)
     /\ (user' = user /\ \E d \in Dates : Len(todos'[d]) < Len(todos[d])) =>
          (confirmModal.visible /\ confirmModal.type = "todos"
             /\ ~confirmModal'.visible)]_vars

\* the logs of the first date cleared while the todo of that date and a log
\* of another date are still there
C24_Witness ==
  /\ user = "admin"
  /\ ~confirmModal.visible
  /\ logs[1] = <<>>
  /\ todos[1] # <<>>
  /\ \E d \in Dates \ {1} : logs[d] # <<>>

\* the entries of a list that have no rawTimestamp, in their order
legacyEntries(list) ==
  LET noTS(l) == ~l.hasTS
  IN SelectSeq(list, noTS)

\* C25: a change of the timezone or of the time format leaves in every bucket
\* the entries without rawTimestamp as they were, display time included and in
\* the same order, while every entry with a rawTimestamp shows the rendering
\* of its instant in the new settings.
C25_LegacyPassThrough ==
  [][(\/ \E tz \in Timezones : handleTimezoneChange(tz)
      \/ \E f \in TimeFormats : handleTimeFormatChange(f)) =>
       \A d \in Dates :
         /\ legacyEntries(logs'[d]) = legacyEntries(logs[d])
         /\ Len(logs'[d]) = Len(logs[d])
         /\ \A i \in 1..Len(logs'[d]) :
              logs'[d][i].hasTS =>
                logs'[d][i].time =
                  toLocaleTimeString(logs'[d][i].rawTimestamp, timezone',
                                     timeFormat')]_vars

\* under Tokyo and the 24-hour format the stored entry without rawTimestamp
\* still shows "9:00 AM", next to an entry rendered in the new settings
C25_Witness ==
  /\ timezone = "Asia/Tokyo"
  /\ timeFormat = "24"
  /\ \E d \in Dates :
       /\ \E i \in 1..Len(logs[d]) :
            ~logs[d][i].hasTS /\ logs[d][i].time = TimeText(9, 0, "AM")
       /\ \E i \in 1..Len(logs[d]) :
            logs[d][i].hasTS /\ logs[d][i].time.ampm = ""

\* C26: over every step, a todo that has a manualOverride and is still in its
\* bucket has one after the step, and its effective completion differs after
\* the step only when the step is the toggle of that todo.
C26_OverrideSticks ==
  [][\A d \in Dates :
       \A id \in idsOf(todos[d]) \cap idsOf(todos'[d]) :
         LET before == itemById(todos[d], id)
             after == itemById(todos'[d], id)
         IN before.manualOverride # "null" =>
              /\ after.manualOverride # "null"
              /\ effectiveCompletion(after, logs'[d])
                   # effectiveCompletion(before, logs[d])
                   => (d = selectedDate /\ toggleTodo(id))]_vars

\* a todo toggled to complete that no log matches, with an edited content,
\* next to an imported todo, the logs cleared and the timezone changed
C26_Witness ==
  /\ timezone = "Asia/Tokyo"
  /\ dayLogs = <<>>
  /\ Len(dayTodos) = 2
  /\ dayTodos[1].manualOverride = "true"
  /\ dayTodos[1].content = <<"b">>

\* C27: a login of an identity with a stored snapshot puts the stored logs and
\* todos in memory and leaves them under the identity's keys; a logout leaves
\* the storage as it is; no step changes the records of an identity that is
\* not logged in after it; and after every step the logs and todos under the
\* keys of the logged-in identity are those in memory.  So the logs and todos
\* in memory just before a logout are those in memory after the next login of
\* that identity.
C27_SessionRoundTrip ==
  [][/\ handleLogout => storage' = storage
     /\ \A u \in Users :
          (/\ handleLoginSubmit(u, password(u))
           /\ storage[u].saved
           /\ storage[u].corrupt = {}) =>
            /\ logs' = storage[u].logs
            /\ todos' = storage[u].todos
            /\ storage'[u].logs = storage[u].logs
            /\ storage'[u].todos = storage[u].todos
     /\ \A u \in Users : u # user' => storage'[u] = storage[u]
     /\ (user' # "none" /\ ~crashed') =>
          /\ storage'[user'].saved
          /\ storage'[user'].logs = logs'
          /\ storage'[user'].todos = todos']_vars

\* admin is logged in with the stored log and a log added in a session, while
\* the other identity has a snapshot of a session of its own with a todo
C27_Witness ==
  /\ user = "admin"
  /\ storage["user"].saved
  /\ \E d \in Dates : storage["user"].todos[d] # <<>>
  /\ \E d \in Dates : \E i \in 1..Len(logs[d]) : logs[d][i].hasTS
  /\ \E d \in Dates : \E i \in 1..Len(logs[d]) : ~logs[d][i].hasTS
  /\ storage["admin"].logs = logs

(***************************************************************************)
(* The operations of the two stores over several dates                     *)
(***************************************************************************)
NextFrame ==
  \/ handleLoginSubmit("admin", "admin")
  \/ \E d \in Dates : setSelectedDate(d)
  \/ addLog(<<"a">>)
  \/ \E id \in idsOf(dayLogs) : removeLog(id)
  \/ \E id \in idsOf(dayLogs) : startEditingLog(id)
  \/ \E id \in idsOf(dayLogs) :
       saveLogEdits(id, itemById(dayLogs, id).time, <<"b", " ">>)
  \/ addTodo(<<"a">>)
  \/ \E id \in idsOf(dayTodos) : removeTodo(id)
  \/ \E id \in idsOf(dayTodos) : startEditingTodo(id)
  \/ \E id \in idsOf(dayTodos) : saveTodoEdits(id, <<"b", " ">>)
  \/ \E id \in idsOf(dayTodos) : toggleTodo(id)
  \/ \E id \in idsOf(dayTodos) : copyTodoToLog(id)
  \/ \E id \in idsOf(dayLogs) : copyLogToTodo(id)
  \/ \E type \in {"logs", "todos"} : confirmClearAll(type)
  \/ onConfirm

SpecFrame == InitSaved /\ [][NextFrame]_vars

\* C28: a step of a session that is an add, a remove, an edit, a toggle, a
\* copy or a clear (every step but the login, here) leaves the buckets of
\* every date other than the selected one as they are, in both stores, and
\* changes at most one of the two stores.
C28_SelectedBucketOnly ==
  [][user' = user =>
       /\ \A d \in Dates \ {selectedDate} :
            logs'[d] = logs[d] /\ todos'[d] = todos[d]
       /\ logs' = logs \/ todos' = todos]_vars

\* the stored log and todo of the first date as they were, while the second
\* date is selected and holds a log that was edited there
C28_Witness ==
  /\ user = "admin"
  /\ selectedDate # 1
  /\ logs[1] = SavedSnapshot.logs[1]
  /\ todos[1] = SavedSnapshot.todos[1]
  /\ \E i \in 1..Len(dayLogs) : dayLogs[i].content = <<"b">>

\* C29: in every reachable state every stored log and every stored todo has
\* a content that is not empty.
C29_NoEmptyContent ==
  \A d \in Dates :
    /\ \A i \in 1..Len(logs[d]) : logs[d][i].content # <<>>
    /\ \A i \in 1..Len(todos[d]) : todos[d][i].content # <<>>

\* the place of the entry of the given id in a list
positionOf(list, id) == CHOOSE i \in 1..Len(list) : list[i].id = id

\* C30: a save of a log edit whose time text is the display time of the
\* entry leaves the rawTimestamp of an entry that has one at the same minute
\* and leaves the entry at its place in the bucket.
C30_ContentEditKeepsTime ==
  [][\A id \in idsOf(dayLogs) :
       LET l == itemById(dayLogs, id)
       IN (saveLogEdits(id, l.time, <<"a">>) /\ l.hasTS) =>
            /\ itemById(dayLogs, id)'.rawTimestamp = floorMinute(l.rawTimestamp)
            /\ positionOf(dayLogs', id) = positionOf(dayLogs, id)]_vars

====
